---- MODULE Spec2Model ----
(***************************************************************************)
(* MetaNK problem generator (ProblemClassGenerator.py) and the Schulze     *)
(* ranking (RankEntries.py).                                               *)
(*                                                                         *)
(* The linkage generators build the adjacency one row at a time.  The      *)
(* model keeps the row under construction (group), the number of rows      *)
(* appended so far (rows) and the width of every appended row (widths);    *)
(* random.sample is modelled draw by draw, every draw ranging over all the *)
(* candidates not drawn yet.                                               *)
(***************************************************************************)
EXTENDS Integers, Sequences, FiniteSets, TLC

\* ------------------------------------------------------------------ bounds
MaxN == 9
MaxK == 2
InstMaxN == 6
MaxCount == 2
MaxBallots == 3
MaxWideBallots == 1
ArrMaxN == 3
MaxCells == 3
NumValues == 5

\* 4.27 clauses per variable, in hundredths (int(4.27 * N))
SatRatioPercent == 427

Linkages == {"NearestNeighbor", "Unrestricted", "Separable", "Mesh", "SAT_like"}
ValueCounts == {"TwoValues", "PowKValues", "AllUnique"}
\* what RNG() can return: NumValues abstract points of [0, 1]
Values == 1..NumValues

VARIABLES
    epistasis,          \* chosen[3]: the linkage kind
    value_levels,       \* chosen[6]: the cardinality strategy
    N, K,               \* chosen[0], chosen[1]
    pc,                 \* where Create_Instance is
    i,                  \* the row loop variable of the linkage generator
    dimension,          \* Mesh: the inner loop variable
    start, chunk, pos,  \* Separable: chunks()'s start, the chunk, index in it
    chunks,             \* Separable: every chunk yielded so far
    population, k,      \* random.sample's arguments
    result,             \* random.sample's result so far
    group,              \* the adjacency row under construction / just appended
    rows,               \* len(adjacency)
    widths,             \* len(adjacency[r]) for every appended row r
    variables_per_row,  \* Create_Instance's variables_per_row
    options,            \* the pool captured by the sampler rng
    tlens,              \* len(table[r]) for every finished table row
    distinct,           \* the distinct cell values of the table so far
    header,             \* the header line's fields <<N, row width, rows>>
    training, testing,  \* args.training, args.testing
    mpc,                \* where the main generation loop is
    split,              \* index of (basename, number) in the loop's list
    instance,           \* the inner loop variable
    filenames,          \* the relative paths appended for this split
    files,              \* the instance paths that exist in args.folder
    manifests,          \* <split>Files.txt: <<>> or <<count, paths>>
    ballots,            \* schulze's argument
    vpc,                \* where schulze is
    d,                  \* the pairwise preference grid
    p,                  \* the strongest paths grid
    todo,               \* the candidates the outer path loop has yet to take
    ranking,            \* schulze's return value (<<>> before it returns)
    arrangement,        \* chosen[4]: the rearrangement method
    adjacency,          \* the rearrangement's argument (its `epistasis`)
    ordering,           \* Scatter's shuffled ordering (<<>> before the shuffle)
    arranged,           \* the rearrangement's return value
    apc                 \* where the rearrangement is

classVars == <<epistasis, value_levels, N, K>>
linkVars == <<i, dimension, start, chunk, pos, chunks, population, k, result,
              group, rows, widths>>
tableVars == <<variables_per_row, options, tlens, distinct, header>>
mainVars == <<training, testing, mpc, split, instance, filenames, files,
              manifests>>
voteVars == <<ballots, vpc, d, p, todo, ranking>>
arrVars == <<arrangement, adjacency, ordering, arranged, apc>>
vars == <<classVars, pc, linkVars, tableVars, mainVars, voteVars, arrVars>>

\* ------------------------------------------------------------------ helpers
Range(s) == {s[j] : j \in 1..Len(s)}

Min(a, b) == IF a < b THEN a ELSE b

RECURSIVE Pow(_, _)
Pow(b, e) == IF e = 0 THEN 1 ELSE b * Pow(b, e - 1)

\* ------------------------------------------------------------------ Mesh
\* int(math.ceil(N ** (1 / (K + 1.0)))): the smallest width whose (K+1)-th
\* power is at least N (the floating point result agrees for N < 2000, K < 8)
MeshWidth(n, kk) ==
    CHOOSE w \in 1..n : Pow(w, kk + 1) >= n
                        /\ \A v \in 1..(w - 1) : Pow(v, kk + 1) < n

\* coord[a] (a = 1..K+1) is the code's coord[a-1]: least significant first
to_coordinates(value, width, kk) ==
    [axis \in 1..(kk + 1) |-> (value \div Pow(width, axis - 1)) % width]

RECURSIVE from_coordinates(_, _)
from_coordinates(coord, width) ==
    IF Len(coord) = 0 THEN 0
    ELSE coord[1] + width * from_coordinates(Tail(coord), width)

\* mutant: the wraparound tests the axis coordinate only, not the linear index
MeshNeighborAxisOnly(n, kk, v, dim) ==
    LET width == MeshWidth(n, kk)
        coord == to_coordinates(v, width, kk)
        neighbor_coord == [coord EXCEPT ![dim + 1] = @ + 1]
    IN  IF neighbor_coord[dim + 1] >= width
        THEN from_coordinates([neighbor_coord EXCEPT ![dim + 1] = 0], width)
        ELSE from_coordinates(neighbor_coord, width)

\* the neighbor of vertex v along dimension dim (0-based, as in the code)
MeshNeighbor(n, kk, v, dim) ==
    LET width == MeshWidth(n, kk)
        coord == to_coordinates(v, width, kk)
        neighbor_coord == [coord EXCEPT ![dim + 1] = @ + 1]
        neighbor_index == from_coordinates(neighbor_coord, width)
    IN  IF neighbor_index >= n \/ neighbor_coord[dim + 1] >= width
        THEN from_coordinates([neighbor_coord EXCEPT ![dim + 1] = 0], width)
        ELSE neighbor_index

\* ------------------------------------------------------------------ Separable
\* step = size + 1 if (len(data) - start) % size else size
ChunkStep(n, st, size) == IF (n - st) % size # 0 THEN size + 1 ELSE size

\* data[start: start + step] of data = range(n)
ChunkSlice(n, st, step) == [j \in 1..Min(step, n - st) |-> st + j - 1]

\* ------------------------------------------------------------------ SAT_like
\* int(4.27 * N): the double product truncated; for N not a multiple of 100
\* this is floor(427 * N / 100)
\* mutant: the product rounded up
SatRowsCeil(n) == (SatRatioPercent * n + 99) \div 100

SatRows(n) == (SatRatioPercent * n) \div 100

\* ------------------------------------------------------------------ NearestNeighbor
NearestNeighborRow(n, kk, v) == [j \in 1..(kk + 1) |-> (v + j - 1) % n]

\* ------------------------------------------------------------------ Init
Basenames == <<"training", "testing">>

\* the main loop has not started; an empty output folder
InitMain ==
    /\ mpc = "instances" /\ split = 1 /\ instance = 0
    /\ filenames = <<>> /\ files = {}
    /\ manifests = [b \in Range(Basenames) |-> <<>>]

\* no ranking is being computed
InitVote ==
    /\ ballots = <<>> /\ vpc = "idle"
    /\ d = <<>> /\ p = <<>> /\ todo = <<>> /\ ranking = <<>>

\* no rearrangement is being applied
InitArr ==
    /\ arrangement = "NoChange" /\ adjacency = <<>>
    /\ ordering = <<>> /\ arranged = <<>> /\ apc = "idle"

InitLink ==
    /\ pc = "epistasis"
    /\ i = 0 /\ dimension = 0
    /\ start = 0 /\ chunk = <<>> /\ pos = 0 /\ chunks = <<>>
    /\ population = {} /\ k = 0 /\ result = <<>>
    /\ group = <<>> /\ rows = 0 /\ widths = <<>>
    /\ variables_per_row = 0 /\ options = {}
    /\ tlens = <<>> /\ distinct = {} /\ header = <<>>

\* the class: Create_Class draws K from 1..5 and N from 50..300; the model
\* takes N from 2, so that K >= N happens too.  The linkage generators do
\* not read value_levels.
Init ==
    /\ epistasis \in Linkages
    /\ value_levels = "AllUnique"
    /\ N \in 2..MaxN
    /\ K \in 1..MaxK
    /\ InitLink
    /\ training = 0 /\ testing = 0 /\ InitMain
    /\ InitVote
    /\ InitArr

\* ------------------------------------------------------------------ appending
AppendRow(row) ==
    /\ group' = row
    /\ rows' = rows + 1
    /\ widths' = Append(widths, Len(row))

\* ------------------------------------------------------------------ linkage steps
NearestNeighborStep ==
    /\ pc = "epistasis" /\ epistasis = "NearestNeighbor"
    /\ i < N
    /\ AppendRow(NearestNeighborRow(N, K, i))
    /\ i' = i + 1
    /\ UNCHANGED <<classVars, pc, dimension, start, chunk, pos, chunks,
                   population, k, result, tableVars,
                   mainVars, voteVars, arrVars>>

MeshStep ==
    /\ pc = "epistasis" /\ epistasis = "Mesh"
    /\ i < N
    /\ AppendRow(<<i, MeshNeighbor(N, K, i, dimension)>>)
    /\ IF dimension = K
       THEN i' = i + 1 /\ dimension' = 0
       ELSE i' = i /\ dimension' = dimension + 1
    /\ UNCHANGED <<classVars, pc, start, chunk, pos, chunks,
                   population, k, result, tableVars,
                   mainVars, voteVars, arrVars>>

\* [i] + random.sample(options - set([i]), K)
UnrestrictedCall ==
    /\ pc = "epistasis" /\ epistasis = "Unrestricted"
    /\ i < N
    /\ group' = <<i>>
    /\ population' = (0..(N - 1)) \ {i}
    /\ k' = K
    /\ result' = <<>>
    /\ pc' = "sample"
    /\ UNCHANGED <<classVars, i, dimension, start, chunk, pos, chunks,
                   rows, widths, tableVars,
                   mainVars, voteVars, arrVars>>

\* random.sample(options, K + 1)
SATCall ==
    /\ pc = "epistasis" /\ epistasis = "SAT_like"
    /\ i < SatRows(N)
    /\ group' = <<>>
    /\ population' = 0..(N - 1)
    /\ k' = K + 1
    /\ result' = <<>>
    /\ pc' = "sample"
    /\ UNCHANGED <<classVars, i, dimension, start, chunk, pos, chunks,
                   rows, widths, tableVars,
                   mainVars, voteVars, arrVars>>

\* chunks(): the next chunk of range(N)
SeparableChunk ==
    /\ pc = "epistasis" /\ epistasis = "Separable"
    /\ pos = Len(chunk)
    /\ start < N
    /\ LET step == ChunkStep(N, start, 2 * K)
       IN  /\ chunk' = ChunkSlice(N, start, step)
           /\ start' = start + step
    /\ chunks' = Append(chunks, chunk')
    /\ pos' = 0
    /\ UNCHANGED <<classVars, pc, i, dimension, population, k, result,
                   group, rows, widths, tableVars,
                   mainVars, voteVars, arrVars>>

\* [i] + random.sample(set(chunk) - set([i]), min(K, len(chunk) - 1))
SeparableCall ==
    /\ pc = "epistasis" /\ epistasis = "Separable"
    /\ pos < Len(chunk)
    /\ i' = chunk[pos + 1]
    /\ group' = <<chunk[pos + 1]>>
    /\ population' = Range(chunk) \ {chunk[pos + 1]}
    /\ k' = Min(K, Len(chunk) - 1)
    /\ result' = <<>>
    /\ pc' = "sample"
    /\ UNCHANGED <<classVars, dimension, start, chunk, pos, chunks,
                   rows, widths, tableVars,
                   mainVars, voteVars, arrVars>>

\* ------------------------------------------------------------------ random.sample
\* mutant: one selection too many is let through
SampleRejectsOffByOne(pop, kk) == kk > Cardinality(pop) + 1

\* random.sample(population, k), a set being accepted as the population
\* (Python before 3.11): ValueError("Sample larger than population or is
\* negative") unless 0 <= k <= len(population)
SampleRejects(pop, kk) == kk > Cardinality(pop)

SampleError ==
    /\ pc = "sample"
    /\ SampleRejects(population, k)
    /\ pc' = "error"
    /\ UNCHANGED <<classVars, linkVars, tableVars,
                   mainVars, voteVars, arrVars>>

\* one selection: any member of the population not selected yet
SampleCandidates(pop, res) == pop \ Range(res)

SampleDraw ==
    /\ pc = "sample"
    /\ ~SampleRejects(population, k)
    /\ Len(result) < k
    /\ \E x \in SampleCandidates(population, result) :
           result' = Append(result, x)
    /\ UNCHANGED <<classVars, pc, i, dimension, start, chunk, pos, chunks,
                   population, k, group, rows, widths, tableVars,
                   mainVars, voteVars, arrVars>>

\* the sample is complete: the row is appended and the loop moves on
SampleReturn ==
    /\ pc = "sample"
    /\ ~SampleRejects(population, k)
    /\ Len(result) = k
    /\ AppendRow(group \o result)
    /\ result' = <<>>
    /\ pc' = "epistasis"
    /\ IF epistasis = "Separable"
       THEN pos' = pos + 1 /\ i' = i
       ELSE pos' = pos /\ i' = i + 1
    /\ UNCHANGED <<classVars, dimension, start, chunk, chunks,
                   population, k, tableVars,
                   mainVars, voteVars, arrVars>>

\* the generator's loop is over
LoopDone ==
    CASE epistasis = "SAT_like" -> i = SatRows(N)
      [] epistasis = "Separable" -> pos = Len(chunk) /\ start >= N
      [] OTHER -> i = N

\* return: the adjacency is complete; the row variable and random.sample's
\* arguments are gone with the generator's frame
EpistasisReturn ==
    /\ pc = "epistasis"
    /\ LoopDone
    /\ pc' = "arrangement"
    /\ group' = <<>> /\ population' = {} /\ k' = 0
    /\ UNCHANGED <<classVars, i, dimension, start, chunk, pos, chunks, result,
                   rows, widths, tableVars,
                   mainVars, voteVars, arrVars>>

LinkNext ==
    \/ NearestNeighborStep
    \/ MeshStep
    \/ UnrestrictedCall
    \/ SATCall
    \/ SeparableChunk
    \/ SeparableCall
    \/ SampleError
    \/ SampleDraw
    \/ SampleReturn
    \/ EpistasisReturn

Next == LinkNext

\* the linkage generators alone
Spec == Init /\ [][Next]_vars

\* ------------------------------------------------------------------ Create_Instance
InitInstance ==
    /\ epistasis \in Linkages
    /\ value_levels \in ValueCounts
    /\ N \in 2..InstMaxN
    /\ K \in 1..MaxK
    /\ InitLink
    /\ training = 0 /\ testing = 0 /\ InitMain
    /\ InitVote
    /\ InitArr

\* adjacency = arrangement(N, epistasis(N, K)); rows = len(adjacency);
\* variables_per_row = len(adjacency[0]).  Scatter and NoChange map a row to a
\* row of the same length, so widths is what it was.
FirstRowWidth(ws) == ws[1]

Arrange ==
    /\ pc = "arrangement"
    /\ variables_per_row' = FirstRowWidth(widths)
    /\ pc' = "value_levels"
    /\ UNCHANGED <<classVars, linkVars, options, tlens, distinct, header,
                   mainVars, voteVars, arrVars>>

\* the pools value_levels(number_maker, variables_per_row) can capture:
\* TwoValues [RNG(), RNG()], PowKValues 2^variables_per_row draws, AllUnique
\* the RNG itself (every call a fresh draw)
SamplerPools(levels, vpr) ==
    CASE levels = "TwoValues" -> {{a, b} : a \in Values, b \in Values}
      [] levels = "PowKValues" ->
            {S \in SUBSET Values : S # {} /\ Cardinality(S) <= Pow(2, vpr)}
      [] OTHER -> {Values}

MakeSampler ==
    /\ pc = "value_levels"
    /\ options' \in SamplerPools(value_levels, variables_per_row)
    /\ pc' = "table"
    /\ UNCHANGED <<classVars, linkVars, variables_per_row, tlens,
                   distinct, header,
                   mainVars, voteVars, arrVars>>

\* range(1 << variables_per_row)
RowCells(vpr) == Pow(2, vpr)

\* mutant: every call draws afresh from the distribution, whatever the pool
SamplerDrawsFresh(pool) == Values

\* what one call of rng() can return
SamplerDraws(pool) == pool

\* the sets of values that `cells` calls of rng() can put in one row
RowValueSets(pool, cells) ==
    {S \in SUBSET SamplerDraws(pool) : S # {} /\ Cardinality(S) <= cells}

\* [rng() for _ in range(1 << variables_per_row)], once per adjacency row:
\* the row's length and the values in it are kept
TableRow ==
    /\ pc = "table"
    /\ Len(tlens) < rows
    /\ \E S \in RowValueSets(options, RowCells(variables_per_row)) :
           distinct' = distinct \cup S
    /\ tlens' = Append(tlens, RowCells(variables_per_row))
    /\ UNCHANGED <<classVars, pc, linkVars, variables_per_row, options,
                   header,
                   mainVars, voteVars, arrVars>>

\* the header line (the evaluation budget field is left out) and the rows
Serialize ==
    /\ pc = "table"
    /\ Len(tlens) = rows
    /\ header' = <<N, variables_per_row, rows>>
    /\ pc' = "done"
    /\ UNCHANGED <<classVars, linkVars, variables_per_row, options,
                   tlens, distinct,
                   mainVars, voteVars, arrVars>>

NextInstance ==
    \/ LinkNext
    \/ Arrange
    \/ MakeSampler
    \/ TableRow
    \/ Serialize

SpecInstance == InitInstance /\ [][NextInstance]_vars

\* ------------------------------------------------------------------ __main__
\* args.training and args.testing: counts from 0 to MaxCount
InitGenerate ==
    /\ epistasis \in Linkages
    /\ value_levels \in ValueCounts
    /\ N \in 2..InstMaxN
    /\ K \in 1..MaxK
    /\ InitLink
    /\ training \in 0..MaxCount
    /\ testing \in 0..MaxCount
    /\ InitMain
    /\ InitVote
    /\ InitArr

\* number of the (basename, number) pair at index s
Number(s) == IF s = 1 THEN training ELSE testing

\* path.join(basename, "{:05d}.txt".format(instance)): the folder and the
\* number the 5-digit name spells
RelativePath(basename, inst) == <<basename, inst>>

\* Create_Instance(*chosen) raises: random.sample rejects the first row's
\* request (Unrestricted and SAT_like; the other kinds never sample more than
\* they have)
CreateInstanceRaises ==
    \/ epistasis = "Unrestricted" /\ SampleRejects((0..(N - 1)) \ {0}, K)
    \/ epistasis = "SAT_like" /\ SampleRejects(0..(N - 1), K + 1)

\* mutant: the manifest does not wait for the instance loop
ManifestReadyEarly(inst, number) == inst <= number

\* for instance in range(number) is exhausted
ManifestReady(inst, number) == inst = number

\* one pass of the inner loop: the file is written, its path appended
WriteInstance ==
    /\ mpc = "instances" /\ split <= Len(Basenames)
    /\ instance < Number(split)
    /\ ~CreateInstanceRaises
    /\ LET relative == RelativePath(Basenames[split], instance)
       IN  /\ files' = files \cup {relative}
           /\ filenames' = Append(filenames, relative)
    /\ instance' = instance + 1
    /\ UNCHANGED <<classVars, pc, linkVars, tableVars, training, testing,
                   mpc, split, manifests, voteVars, arrVars>>

\* Create_Instance raises inside the with block: open() has created the
\* file, nothing is appended, the run ends
InstanceRaises ==
    /\ mpc = "instances" /\ split <= Len(Basenames)
    /\ instance < Number(split)
    /\ CreateInstanceRaises
    /\ files' = files \cup {RelativePath(Basenames[split], instance)}
    /\ mpc' = "aborted"
    /\ UNCHANGED <<classVars, pc, linkVars, tableVars, training, testing,
                   split, instance, filenames, manifests, voteVars, arrVars>>

\* open() fails on an instance file or on the manifest: the run ends
OpenFails ==
    /\ mpc = "instances" /\ split <= Len(Basenames)
    /\ mpc' = "aborted"
    /\ UNCHANGED <<classVars, pc, linkVars, tableVars, training, testing,
                   split, instance, filenames, files, manifests, voteVars, arrVars>>

\* the manifest of the split: the count, then the paths; then the next split
WriteManifest ==
    /\ mpc = "instances" /\ split <= Len(Basenames)
    /\ ManifestReady(instance, Number(split))
    /\ manifests' = [manifests EXCEPT
                        ![Basenames[split]] = <<Number(split), filenames>>]
    /\ split' = split + 1
    /\ instance' = 0
    /\ filenames' = <<>>
    /\ mpc' = IF split = Len(Basenames) THEN "done" ELSE mpc
    /\ UNCHANGED <<classVars, pc, linkVars, tableVars, training, testing,
                   files, voteVars, arrVars>>

NextGenerate ==
    \/ WriteInstance
    \/ InstanceRaises
    \/ OpenFails
    \/ WriteManifest

SpecGenerate == InitGenerate /\ [][NextGenerate]_vars

\* ------------------------------------------------------------------ schulze
BallotsOf(S) == {b \in [1..Cardinality(S) -> S] : Range(b) = S}

Repeat(b, n) == [j \in 1..n |-> b]

\* test_schulze's 45 ballots
WikiBallots ==
    Repeat(<<"A", "C", "B", "E", "D">>, 5) \o
    Repeat(<<"A", "D", "E", "C", "B">>, 5) \o
    Repeat(<<"B", "E", "D", "A", "C">>, 8) \o
    Repeat(<<"C", "A", "B", "E", "D">>, 3) \o
    Repeat(<<"C", "A", "E", "B", "D">>, 7) \o
    Repeat(<<"C", "B", "A", "D", "E">>, 2) \o
    Repeat(<<"D", "C", "E", "B", "A">>, 7) \o
    Repeat(<<"E", "B", "A", "D", "C">>, 8)

\* the profiles schulze is applied to: every ballot a permutation of the same
\* candidates
Profiles ==
    UNION {[1..n -> BallotsOf({"A", "B", "C"})] : n \in 1..MaxBallots}
    \cup UNION {[1..n -> BallotsOf({"A", "B", "C", "D"})] :
                   n \in 1..MaxWideBallots}
    \cup {WikiBallots}

InitSchulze ==
    /\ ballots \in Profiles
    /\ vpc = "grid"
    /\ d = <<>> /\ p = <<>> /\ todo = <<>> /\ ranking = <<>>
    /\ epistasis = "NearestNeighbor" /\ value_levels = "AllUnique"
    /\ N = 2 /\ K = 1
    /\ InitLink
    /\ training = 0 /\ testing = 0 /\ InitMain
    /\ InitArr

\* b.index(x)
IndexOf(b, x) ==
    CHOOSE j \in 1..Len(b) : b[j] = x /\ \A l \in 1..(j - 1) : b[l] # x

\* d: how many ballots put x before y
PairwiseGrid(bs) ==
    [x \in Range(bs[1]), y \in Range(bs[1]) |->
        Cardinality({n \in 1..Len(bs) :
                        IndexOf(bs[n], x) < IndexOf(bs[n], y)})]

\* p before the path loop: d[(i, j)] where i beats j, else 0 (the entries
\* p[x, x] are not in the code's dict and are never read)
DirectPaths(grid) ==
    [x \in DOMAIN grid |->
        IF x[1] # x[2] /\ grid[x[1], x[2]] > grid[x[2], x[1]]
        THEN grid[x[1], x[2]] ELSE 0]

Max(a, b) == IF a > b THEN a ELSE b

\* the j and k loops for one i: every p[(j, k)] with j, k # i is raised to
\* min(p[(j, i)], p[(i, k)]); the entries read have i as an end and are not
\* written in this pass, so the in-place update is this simultaneous one
PathPass(paths, c) ==
    [x \in DOMAIN paths |->
        IF x[1] # c /\ x[2] # c /\ x[1] # x[2]
        THEN Max(paths[x], Min(paths[x[1], c], paths[c, x[2]]))
        ELSE paths[x]]

\* mutant: the comparison the other way round
LosesToFlipped(paths, x, y) == paths[x, y] > paths[y, x]

\* if p[(i, j)] < p[(j, i)]
LosesTo(paths, x, y) == paths[x, y] < paths[y, x]

\* ranks[i]: 1 plus the matchups i loses
Ranks(paths, cands) ==
    [c \in Range(cands) |->
        1 + Cardinality({o \in Range(cands) \ {c} : LosesTo(paths, c, o)})]

\* sorted(keys, key=...): stable, so ties keep the order of ballots[0]
RECURSIVE SortedByKey(_, _)
SortedByKey(seq, key) ==
    IF Len(seq) = 0 THEN <<>>
    ELSE LET least == CHOOSE j \in 1..Len(seq) :
                        /\ \A l \in 1..Len(seq) : key[seq[j]] <= key[seq[l]]
                        /\ \A l \in 1..(j - 1) : key[seq[l]] > key[seq[j]]
             rest == [l \in 1..(Len(seq) - 1) |->
                        IF l < least THEN seq[l] ELSE seq[l + 1]]
         IN  <<seq[least]>> \o SortedByKey(rest, key)

\* candidates, d and p as they are before the path loop
SchulzeGrid ==
    /\ vpc = "grid"
    /\ d' = PairwiseGrid(ballots)
    /\ p' = DirectPaths(PairwiseGrid(ballots))
    /\ todo' = ballots[1]
    /\ vpc' = "paths"
    /\ UNCHANGED <<classVars, pc, linkVars, tableVars, mainVars, ballots,
                   ranking, arrVars>>

\* for i in candidates: one pass of the path loop
SchulzePass ==
    /\ vpc = "paths"
    /\ Len(todo) > 0
    /\ p' = PathPass(p, todo[1])
    /\ todo' = Tail(todo)
    /\ UNCHANGED <<classVars, pc, linkVars, tableVars, mainVars, ballots,
                   vpc, d, ranking, arrVars>>

\* ranks, and the candidates sorted by them
SchulzeReturn ==
    /\ vpc = "paths"
    /\ Len(todo) = 0
    /\ ranking' = SortedByKey(ballots[1], Ranks(p, ballots[1]))
    /\ vpc' = "done"
    /\ UNCHANGED <<classVars, pc, linkVars, tableVars, mainVars, ballots,
                   d, p, todo, arrVars>>

NextSchulze ==
    \/ SchulzeGrid
    \/ SchulzePass
    \/ SchulzeReturn

SpecSchulze == InitSchulze /\ [][NextSchulze]_vars

\* ------------------------------------------------------------------ rearrangement
\* a flat list of indices cut into rows after the positions of `cuts`
RECURSIVE SplitRows(_, _)
SplitRows(flat, cuts) ==
    IF Len(flat) = 0 THEN <<>>
    ELSE LET ends == (cuts \cap 1..Len(flat)) \cup {Len(flat)}
             cut == CHOOSE e \in ends : \A o \in ends : e <= o
         IN  <<SubSeq(flat, 1, cut)>> \o
             SplitRows(SubSeq(flat, cut + 1, Len(flat)),
                       {e - cut : e \in cuts \ 1..cut})

\* the adjacencies over range(n) of up to MaxCells entries in all: non-empty
\* rows of any widths, an index allowed to repeat (as in Mesh's rows)
Adjacencies(n) ==
    UNION {{SplitRows(flat, cuts) :
                flat \in [1..c -> 0..(n - 1)], cuts \in SUBSET (1..(c - 1))} :
           c \in 1..MaxCells}

InitArrange ==
    /\ N \in 2..ArrMaxN
    /\ arrangement \in {"Scatter", "NoChange"}
    /\ adjacency \in Adjacencies(N)
    /\ ordering = <<>> /\ arranged = <<>> /\ apc = "call"
    /\ epistasis = "NearestNeighbor" /\ value_levels = "AllUnique" /\ K = 1
    /\ InitLink
    /\ training = 0 /\ testing = 0 /\ InitMain
    /\ InitVote

\* mutant: every position of the ordering drawn independently
ShuffledWithReplacement(n) == [0..(n - 1) -> 0..(n - 1)]

\* ordering = list(range(N)); random.shuffle(ordering): the elements of
\* range(N) in any order, ordering[x] for x in 0..N-1
Shuffled(n) ==
    {f \in [0..(n - 1) -> 0..(n - 1)] : {f[x] : x \in 0..(n - 1)} = 0..(n - 1)}

\* [ordering[x] for x in group]
ScatterRow(order, row) == [c \in 1..Len(row) |-> order[row[c]]]

ScatterShuffle ==
    /\ apc = "call" /\ arrangement = "Scatter"
    /\ ordering' \in Shuffled(N)
    /\ apc' = "shuffled"
    /\ UNCHANGED <<classVars, pc, linkVars, tableVars, mainVars, voteVars,
                   arrangement, adjacency, arranged>>

\* return [[ordering[x] for x in group] for group in epistasis]
ScatterReturn ==
    /\ apc = "shuffled"
    /\ arranged' = [r \in 1..Len(adjacency) |->
                        ScatterRow(ordering, adjacency[r])]
    /\ apc' = "returned"
    /\ UNCHANGED <<classVars, pc, linkVars, tableVars, mainVars, voteVars,
                   arrangement, adjacency, ordering>>

\* return epistasis
NoChangeReturn ==
    /\ apc = "call" /\ arrangement = "NoChange"
    /\ arranged' = adjacency
    /\ apc' = "returned"
    /\ UNCHANGED <<classVars, pc, linkVars, tableVars, mainVars, voteVars,
                   arrangement, adjacency, ordering>>

NextArrange ==
    \/ ScatterShuffle
    \/ ScatterReturn
    \/ NoChangeReturn

SpecArrange == InitArrange /\ [][NextArrange]_vars

\* ================================================================== claims
Distinct(row) == \A a, b \in 1..Len(row) : a # b => row[a] # row[b]

InRange(row) == \A a \in 1..Len(row) : row[a] \in 0..(N - 1)

\* a row has just been appended by the linkage generator
RowAppended == pc = "epistasis" /\ rows > 0

\* C1: for every linkage kind and 1 <= K <= N-1, every adjacency row holds
\* only indices of [0, N) and no index twice (a Mesh row never pairs a vertex
\* with itself).
C1_RowsDistinctInRange ==
    (K <= N - 1 /\ RowAppended) => InRange(group) /\ Distinct(group)

\* C2: for 1 <= K <= N-1 every row of NearestNeighbor, Unrestricted,
\* Separable and SAT_like has K+1 entries; Mesh has N*(K+1) rows of 2 entries.
C2_RowWidths ==
    (K <= N - 1) =>
        /\ epistasis # "Mesh" => \A r \in 1..Len(widths) : widths[r] = K + 1
        /\ epistasis = "Mesh" =>
              /\ \A r \in 1..Len(widths) : widths[r] = 2
              /\ pc = "arrangement" => rows = N * (K + 1)

\* C4: Separable's blocks are contiguous, disjoint and cover 0..N-1 once, no
\* block has fewer than K+1 members unless N < K+1, and the row of member i
\* holds i first and then only other members of i's block.
C4_SeparableBlocks ==
    epistasis = "Separable" =>
        /\ \A c \in 1..Len(chunks) :
              /\ Len(chunks[c]) > 0
              /\ \A j \in 1..(Len(chunks[c]) - 1) :
                    chunks[c][j + 1] = chunks[c][j] + 1
              /\ chunks[c][1] = (IF c = 1 THEN 0
                                 ELSE chunks[c - 1][Len(chunks[c - 1])] + 1)
              /\ Len(chunks[c]) >= K + 1 \/ N < K + 1
        /\ pc = "arrangement" =>
              /\ Len(chunks) > 0
              /\ chunks[Len(chunks)][Len(chunks[Len(chunks)])] = N - 1
        /\ (RowAppended /\ pos > 0) =>
              /\ group[1] = chunk[pos]
              /\ Range(group) \subseteq Range(chunk)
              /\ Distinct(group)

\* the neighbor of v along axis a, axis a being the digit of weight width^a:
\* one more on that digit, the digit reset to 0 when it reaches the width or
\* when the index reaches n
C5_Neighbor(n, kk, v, a) ==
    LET w == CHOOSE x \in 1..n : Pow(x, kk + 1) >= n /\ Pow(x - 1, kk + 1) < n
        weight == Pow(w, a)
        digit == (v \div weight) % w
    IN  IF digit + 1 >= w \/ v + weight >= n
        THEN v - digit * weight
        ELSE v + weight

\* C5 (amended): Mesh emits, for every vertex v in order and every axis a in
\* 0..K in order, the row (v, u), u being v with its axis-a coordinate
\* incremented, reset to 0 if it reaches the width or the index reaches N.
\* Axis 0 is the least significant coordinate: for N=9, K=1 the rows of
\* vertex 8 are (8,6) (axis 0), then (8,2) (axis 1).
C5_MeshRows ==
    (epistasis = "Mesh" /\ RowAppended) =>
        /\ LET v == (rows - 1) \div (K + 1)
               a == (rows - 1) % (K + 1)
           IN  group = <<v, C5_Neighbor(N, K, v, a)>>
        /\ (N = 9 /\ K = 1 /\ rows = 17) => group = <<8, 6>>
        /\ (N = 9 /\ K = 1 /\ rows = 18) => group = <<8, 2>>

C5_Witness ==
    /\ epistasis = "Mesh" /\ N = 9 /\ K = 1
    /\ RowAppended /\ rows = 18 /\ group = <<8, 2>>

\* C5 as stated: for N=9, K=1 axis 0 of vertex 8 gives 2 and axis 1 gives 6,
\* the rows being (8,2) then (8,6).
C5_Original ==
    (epistasis = "Mesh" /\ RowAppended /\ N = 9 /\ K = 1) =>
        /\ rows = 17 => group = <<8, 2>>
        /\ rows = 18 => group = <<8, 6>>

C8_SampleRejected ==
    /\ (K >= N /\ epistasis \in {"Unrestricted", "SAT_like"}) =>
          /\ rows = 0 /\ result = <<>>
          /\ pc \in {"epistasis", "sample", "error"}
          /\ pc = "epistasis" => i = 0
    /\ (K >= N /\ epistasis = "Separable") =>
          /\ pc # "error"
          /\ (RowAppended /\ pos > 0) =>
                Len(group) = 1 + Min(K, Len(chunk) - 1)

C8_Witness ==
    /\ K >= N /\ epistasis = "SAT_like"
    /\ pc = "error" /\ rows = 0

\* C3: the instance has as many table rows as adjacency rows, table row r
\* has 2^(width of adjacency row r) cells, and the header's row width is the
\* width of every row.
C3_TableShape ==
    pc = "done" =>
        /\ Len(tlens) = Len(widths)
        /\ \A r \in 1..Len(tlens) : tlens[r] = Pow(2, widths[r])
        /\ \A r \in 1..Len(widths) : header[2] = widths[r]

\* C9: the sampler is built once per instance: over the whole table at most
\* 2 distinct values under TwoValues and at most 2^(width of the first row)
\* under PowKValues, every one of them a member of the pool drawn at
\* construction.
C9_DistinctValues ==
    /\ value_levels = "TwoValues" => Cardinality(distinct) <= 2
    /\ (value_levels = "PowKValues" /\ Len(widths) > 0) =>
          Cardinality(distinct) <= Pow(2, widths[1])
    /\ value_levels \in {"TwoValues", "PowKValues"} =>
          distinct \subseteq options

C9_Witness ==
    /\ pc = "done" /\ value_levels = "PowKValues"
    /\ rows > 1
    /\ Cardinality(distinct) = Pow(2, widths[1])

\* C7: a manifest that exists holds the requested count of its split and
\* exactly that many paths <split>/00000.txt .. in order, every one of them an
\* existing file; testing's manifest comes after training's; once the run has
\* failed, the manifest of the current split is not written.
C7_ManifestAfterInstances ==
    /\ \A s \in 1..Len(Basenames) :
          LET m == manifests[Basenames[s]]
          IN  m # <<>> =>
                /\ m[1] = (IF s = 1 THEN training ELSE testing)
                /\ Len(m[2]) = m[1]
                /\ \A j \in 1..Len(m[2]) :
                      m[2][j] = <<Basenames[s], j - 1>> /\ m[2][j] \in files
    /\ manifests["testing"] # <<>> => manifests["training"] # <<>>
    /\ mpc = "aborted" => manifests[Basenames[split]] = <<>>

C7_Witness ==
    /\ mpc = "done" /\ training = 2 /\ testing = 1
    /\ manifests["training"] = <<2, <<<<"training", 0>>, <<"training", 1>>>>>>
    /\ manifests["testing"] = <<1, <<<<"testing", 0>>>>>>

\* how many ballots prefer x to y
C10_Prefer(x, y) ==
    Cardinality({n \in 1..Len(ballots) :
        \E a, b \in 1..Len(ballots[n]) :
            a < b /\ ballots[n][a] = x /\ ballots[n][b] = y})

C10_Link(x, y) ==
    IF C10_Prefer(x, y) > C10_Prefer(y, x) THEN C10_Prefer(x, y) ELSE 0

\* the strength of the strongest path from x to y that avoids `used`: the
\* best, over all simple paths, of the weakest link
RECURSIVE C10_Strength(_, _, _)
C10_Strength(x, y, used) ==
    LET via == {Min(C10_Link(x, z), C10_Strength(z, y, used \cup {x})) :
                  z \in Range(ballots[1]) \ (used \cup {x, y})}
        all == via \cup {C10_Link(x, y)}
    IN  CHOOSE m \in all : \A o \in all : o <= m

\* the opponents whose strongest path against c is stronger than c's
C10_Losses(c) ==
    Cardinality({o \in Range(ballots[1]) \ {c} :
        C10_Strength(o, c, {}) > C10_Strength(c, o, {})})

\* C10: schulze returns every candidate exactly once, in non-decreasing
\* number of opponents with a strictly stronger strongest path; a candidate
\* preferred to every other on more than half of the ballots comes first;
\* the 45 ballots of test_schulze give E, A, C, B, D.
C10_SchulzeOrder ==
    ranking # <<>> =>
        /\ Len(ranking) = Len(ballots[1])
        /\ Range(ranking) = Range(ballots[1])
        /\ \A a, b \in 1..Len(ranking) :
              a < b => C10_Losses(ranking[a]) <= C10_Losses(ranking[b])
        /\ \A c \in Range(ballots[1]) :
              (\A o \in Range(ballots[1]) \ {c} :
                  2 * C10_Prefer(c, o) > Len(ballots)) => ranking[1] = c
        /\ ballots = WikiBallots => ranking = <<"E", "A", "C", "B", "D">>

C10_Witness ==
    /\ ballots = WikiBallots
    /\ ranking = <<"E", "A", "C", "B", "D">>

\* C11: Scatter relabels through one bijection pi of 0..N-1: same number of
\* rows, same widths, entry (r, c) equal to pi(A[r][c]) with the same pi
\* everywhere, so two positions hold equal indices afterwards exactly when
\* they did before, and the entries stay in [0, N); NoChange returns A.
C11_ScatterRelabels ==
    apc = "returned" =>
        /\ arrangement = "NoChange" => arranged = adjacency
        /\ arrangement = "Scatter" =>
              /\ Len(arranged) = Len(adjacency)
              /\ \A r \in 1..Len(adjacency) :
                    Len(arranged[r]) = Len(adjacency[r])
              /\ \E pi \in [0..(N - 1) -> 0..(N - 1)] :
                    /\ \A x, y \in 0..(N - 1) : pi[x] = pi[y] => x = y
                    /\ \A r \in 1..Len(adjacency) :
                          \A c \in 1..Len(adjacency[r]) :
                              arranged[r][c] = pi[adjacency[r][c]]
              /\ \A r1, r2 \in 1..Len(adjacency) :
                    \A c1 \in 1..Len(adjacency[r1]) :
                        \A c2 \in 1..Len(adjacency[r2]) :
                            (arranged[r1][c1] = arranged[r2][c2])
                                <=> (adjacency[r1][c1] = adjacency[r2][c2])
              /\ \A r \in 1..Len(arranged) :
                    \A c \in 1..Len(arranged[r]) :
                        arranged[r][c] \in 0..(N - 1)

C11_Witness ==
    /\ apc = "returned" /\ arrangement = "Scatter" /\ N = 3
    /\ adjacency = <<<<0, 1>>, <<1>>>>
    /\ arranged = <<<<2, 0>>, <<0>>>>
====
